---------------------------- MODULE Spec2Model ----------------------------
(***************************************************************************)
(* Model of template_dfa (src/template.cpp): the scanner that breaks       *)
(* template text into alternating HTML and R-code pieces at the "{{" and   *)
(* "}}" delimiters.  One call is modelled: the argument check, one action  *)
(* per iteration of the byte loop, and the end-of-input check with the     *)
(* final emission and truncation.                                          *)
(***************************************************************************)
EXTENDS Integers, Sequences, FiniteSets, TLC

(***************************************************************************)
(* Bounds and input sets                                                   *)
(***************************************************************************)

\* Longest freely chosen run of bytes of a document.
MaxLen == 4

\* One representative byte per branch of the switch statements, plus an
\* ordinary byte.
\* (the backquote character cannot be written in a string of this notation,
\* so it is spelt out).
BACKTICK == "backtick"
Bytes == {"{", "}", "'", "\"", BACKTICK, "%", "#", "\\", "\n", "a"}

SeqsUpTo(S, n) == UNION {[1..k -> S] : k \in 0..n}

\* Longest document made of braces and ordinary bytes only.
MaxBraceLen == 9

\* Documents: any bytes up to MaxLen; "{{" followed by any bytes up to
\* MaxLen (so that code regions get MaxLen bytes of their own); and longer
\* documents of braces and ordinary bytes (several code regions).
Documents ==
  SeqsUpTo(Bytes, MaxLen)
    \cup {<<"{", "{">> \o t : t \in SeqsUpTo(Bytes, MaxLen)}
    \cup SeqsUpTo({"{", "}", "a"}, MaxBraceLen)

\* Argument vectors: the R character vector x_sxp, of length 0, 1 or 2.
InputVectors ==
  {<<>>} \cup {<<d>> : d \in Documents}
         \cup {<<d, e>> : d \in SeqsUpTo({"{", "a"}, 1), e \in SeqsUpTo({"}"}, 1)}

(***************************************************************************)
(* enum State, lines 17-31                                                 *)
(***************************************************************************)
html                         == "html"
code                         == "code"
html_oneOpenBracket          == "html_oneOpenBracket"
code_oneCloseBracket         == "code_oneCloseBracket"
code_string1                 == "code_string1"
code_string1_backslash       == "code_string1_backslash"
code_string2                 == "code_string2"
code_string2_backslash       == "code_string2_backslash"
code_backtick                == "code_backtick"
code_backtick_backslash      == "code_backtick_backslash"
code_percentOp               == "code_percentOp"
code_comment                 == "code_comment"
code_comment_oneCloseBracket == "code_comment_oneCloseBracket"

State ==
  {html, code, html_oneOpenBracket, code_oneCloseBracket, code_string1,
   code_string1_backslash, code_string2, code_string2_backslash,
   code_backtick, code_backtick_backslash, code_percentOp, code_comment,
   code_comment_oneCloseBracket}

(***************************************************************************)
(* R values                                                                *)
(***************************************************************************)

\* R_BlankString, the element Rf_allocVector puts in a fresh STRSXP.
R_BlankString == <<>>
\* NA_STRING, the element Rf_lengthgets pads a STRSXP with.
NA_STRING == <<"NA">>
\* Capacity the accumulator is allocated with.
PiecesCapacity == 10

\* Rf_allocVector(STRSXP, n)
Rf_allocVector(n) == [k \in 1..n |-> R_BlankString]

\* Variant: the longer vector is not filled from the old one.
Rf_lengthgets_dropsOld(x, len) == [k \in 1..len |-> NA_STRING]

\* Rf_lengthgets(x, len): copy, padded with NA_STRING or cut.
Rf_lengthgets(x, len) ==
  [k \in 1..len |-> IF k <= Len(x) THEN x[k] ELSE NA_STRING]

\* str_sxp_set(x, i, val), i 0-based.
str_sxp_set(x, i, val) ==
  LET grown == IF i >= Len(x) THEN Rf_lengthgets(x, Len(x) * 2) ELSE x
  IN  [grown EXCEPT ![i + 1] = val]

\* Rf_mkCharLenCE(input + start, n, CE_UTF8): the n bytes from 0-based start.
Rf_mkCharLenCE(input, start, n) == SubSeq(input, start + 1, start + n)

(***************************************************************************)
(* The switch, one operator per case.  Each yields the next state and      *)
(* whether the case runs the emission block (mkCharLenCE / str_sxp_set /   *)
(* pieceStartIdx = i + 1).                                                 *)
(***************************************************************************)
Go(s)    == [state |-> s, emit |-> FALSE]
Close(s) == [state |-> s, emit |-> TRUE]

case_html(c) ==
  IF c = "{" THEN Go(html_oneOpenBracket) ELSE Go(html)

\* Variant: the emission block runs for every byte met after a "{".
case_html_oneOpenBracket_emitsAlways(c) ==
  IF c = "{" THEN Close(code) ELSE Close(html)

\* Variant: a byte other than "{" leaves the automaton waiting for "{".
case_html_oneOpenBracket_sticky(c) ==
  IF c = "{" THEN Close(code) ELSE Go(html_oneOpenBracket)

case_html_oneOpenBracket(c) ==
  IF c = "{" THEN Close(code) ELSE Go(html)

case_code(c) ==
  CASE c = "}"  -> Go(code_oneCloseBracket)
    [] c = "'"  -> Go(code_string1)
    [] c = "\"" -> Go(code_string2)
    [] c = BACKTICK -> Go(code_backtick)
    [] c = "%"  -> Go(code_percentOp)
    [] c = "#"  -> Go(code_comment)
    [] OTHER    -> Go(code)

\* Variant: a byte other than "}" is dispatched as a byte of code.
case_code_oneCloseBracket_redispatch(c) ==
  IF c = "}" THEN Close(html) ELSE case_code(c)

\* Variant: the second "}" stores the piece but the automaton stays in code.
case_code_oneCloseBracket_staysCode(c) ==
  IF c = "}" THEN Close(code) ELSE Go(code)

case_code_oneCloseBracket(c) ==
  IF c = "}" THEN Close(html) ELSE Go(code)

case_code_string1(c) ==
  CASE c = "\\" -> Go(code_string1_backslash)
    [] c = "'"  -> Go(code)
    [] OTHER    -> Go(code_string1)

\* Variant: the escape state looks at the escaped byte and lets a quote
\* end the string.
case_code_string1_backslash_inspects(c) ==
  IF c = "'" THEN Go(code) ELSE Go(code_string1)

case_code_string1_backslash(c) == Go(code_string1)

case_code_string2(c) ==
  CASE c = "\\" -> Go(code_string2_backslash)
    [] c = "\"" -> Go(code)
    [] OTHER    -> Go(code_string2)

case_code_string2_backslash(c) == Go(code_string2)

case_code_backtick(c) ==
  CASE c = "\\" -> Go(code_backtick_backslash)
    [] c = BACKTICK -> Go(code)
    [] OTHER    -> Go(code_backtick)

case_code_backtick_backslash(c) == Go(code_backtick)

\* Variant: a "}" inside a percent operator is taken as a closing brace.
case_code_percentOp_seesBrace(c) ==
  CASE c = "%" -> Go(code)
    [] c = "}" -> Go(code_oneCloseBracket)
    [] OTHER   -> Go(code_percentOp)

case_code_percentOp(c) ==
  IF c = "%" THEN Go(code) ELSE Go(code_percentOp)

\* Variant: the first "}" of a comment already closes the code piece.
case_code_comment_closesAtOnce(c) ==
  CASE c = "}"  -> Close(html)
    [] c = "\n" -> Go(code)
    [] OTHER    -> Go(code_comment)

case_code_comment(c) ==
  CASE c = "}"  -> Go(code_comment_oneCloseBracket)
    [] c = "\n" -> Go(code)
    [] OTHER    -> Go(code_comment)

\* Variant: the second "}" leaves the code region without storing the
\* piece.
case_code_comment_oneCloseBracket_noEmit(c) ==
  IF c = "}" THEN Go(html) ELSE Go(code)

case_code_comment_oneCloseBracket(c) ==
  IF c = "}" THEN Close(html) ELSE Go(code)

\* switch (state), lines 52-174
Switch(s, c) ==
  CASE s = html                         -> case_html(c)
    [] s = html_oneOpenBracket          -> case_html_oneOpenBracket(c)
    [] s = code                         -> case_code(c)
    [] s = code_oneCloseBracket         -> case_code_oneCloseBracket(c)
    [] s = code_string1                 -> case_code_string1(c)
    [] s = code_string1_backslash       -> case_code_string1_backslash(c)
    [] s = code_string2                 -> case_code_string2(c)
    [] s = code_string2_backslash       -> case_code_string2_backslash(c)
    [] s = code_backtick                -> case_code_backtick(c)
    [] s = code_backtick_backslash      -> case_code_backtick_backslash(c)
    [] s = code_percentOp               -> case_code_percentOp(c)
    [] s = code_comment                 -> case_code_comment(c)
    [] s = code_comment_oneCloseBracket -> case_code_comment_oneCloseBracket(c)

\* Variant: the end check also lets a scan that is still in code through.
EndsInHtml_orCode(s) == s = html \/ s = html_oneOpenBracket \/ s = code

\* Variant: the end check accepts html only.
EndsInHtml_htmlOnly(s) == s = html

\* The condition of line 177, negated: the states the scan may end in.
EndsInHtml(s) == s = html \/ s = html_oneOpenBracket

\* Variant: only the empty vector is refused.
ValidInput_atLeastOne(x) == Len(x) >= 1

\* The condition of line 33, negated.
ValidInput(x) == Len(x) = 1

\* Variant: the closed piece keeps the first delimiter byte.
ClosedPieceLen_keepsBrace(i, start) == i - start

\* Length of the piece closed at byte i (lines 65, 96, 164).
ClosedPieceLen(i, start) == i - start - 1

\* Variant: the next piece starts one byte past the delimiter.
NextPieceStart_pastDelimiter(i) == i + 2

\* Variant: the next piece starts at the second delimiter byte.
NextPieceStart_atDelimiter(i) == i

\* pieceStartIdx after a piece is closed at byte i (lines 68, 99, 167).
NextPieceStart(i) == i + 1

\* Variant: the ending piece is measured like a piece closed by a delimiter.
EndingPieceLen_asClosed(len, start) == len - start - 1

\* Length of the ending HTML piece (line 182).
EndingPieceLen(len, start) == len - start

\* Variant: the loop steps over every other byte.
NextIndex_skips(i) == i + 2

\* The loop increment of line 50.
NextIndex(i) == i + 1

\* Lines 186-189: drop the unused slots.
Truncate(p, n) == IF n < Len(p) THEN SubSeq(p, 1, n) ELSE p

(***************************************************************************)
(* State                                                                   *)
(***************************************************************************)
VARIABLES
  x_sxp,          \* the argument
  pc,             \* "entry", "loop", "returned", "error"
  input,          \* CHAR(STRING_ELT(x_sxp, 0))
  len,            \* Rf_xlength(input_sxp)
  i,              \* loop index, 0-based
  state,          \* the automaton's state
  pieceStartIdx,  \* 0-based start of the piece being scanned
  pieces,         \* the accumulator (a STRSXP), <<>> before it is allocated
  pieces_num,     \* number of pieces stored
  result,         \* the returned vector, NoResult until the call returns
  error,          \* the Rf_error raised, "none" if none
  lex,            \* observer: lexical context of the embedded code
  lexEsc          \* observer: previous byte was an escaping backslash

vars == <<x_sxp, pc, input, len, i, state, pieceStartIdx, pieces, pieces_num,
          result, error, lex, lexEsc>>

NoResult == <<<<"no result">>>>
InvalidInput == "Input HTML must be a character vector of length 1"
UnterminatedCode == "HTML template did not end in html state (missing closing \"}}\")."

(***************************************************************************)
(* Observer of the embedded code's lexical context, as the scanner's       *)
(* contract words it: a quote, "%" or "#" met in code text outside any     *)
(* other context opens its context; a string or backtick region runs to    *)
(* its matching unescaped quote, a percent operator to the next "%", a     *)
(* comment to the next newline.  Code text is what lies between a          *)
(* recorded "{{" boundary and the next recorded boundary.  The observer    *)
(* never influences the scan.                                              *)
(***************************************************************************)
Quotes == {"'", "\"", BACKTICK}

LexNext(s, c, r) ==
  CASE r.emit \/ s \in {html, html_oneOpenBracket} ->
         [lex |-> "text", esc |-> FALSE]
    [] OTHER ->
         CASE lex = "text" ->
                [lex |-> IF c \in Quotes \cup {"%", "#"} THEN c ELSE "text",
                 esc |-> FALSE]
           [] lex \in Quotes ->
                IF lexEsc THEN [lex |-> lex, esc |-> FALSE]
                ELSE IF c = "\\" THEN [lex |-> lex, esc |-> TRUE]
                ELSE IF c = lex THEN [lex |-> "text", esc |-> FALSE]
                ELSE [lex |-> lex, esc |-> FALSE]
           [] lex = "%" ->
                [lex |-> IF c = "%" THEN "text" ELSE "%", esc |-> FALSE]
           [] lex = "#" ->
                [lex |-> IF c = "\n" THEN "text" ELSE "#", esc |-> FALSE]

(***************************************************************************)
(* Actions                                                                 *)
(***************************************************************************)
\* The state at the call, for an argument drawn from the set V.
InitOn(V) ==
  /\ x_sxp \in V
  /\ pc = "entry"
  /\ input = <<>>
  /\ len = 0
  /\ i = 0
  /\ state = html
  /\ pieceStartIdx = 0
  /\ pieces = <<>>
  /\ pieces_num = 0
  /\ result = NoResult
  /\ error = "none"
  /\ lex = "text"
  /\ lexEsc = FALSE

Init == InitOn(InputVectors)

\* Lines 33-35: the argument is not one string.
RejectInput ==
  /\ pc = "entry"
  /\ ~ValidInput(x_sxp)
  /\ pc' = "error"
  /\ error' = InvalidInput
  /\ UNCHANGED <<x_sxp, input, len, i, state, pieceStartIdx, pieces,
                 pieces_num, result, lex, lexEsc>>

\* Lines 37-49: allocate the accumulator and set up the loop.
BeginScan ==
  /\ pc = "entry"
  /\ ValidInput(x_sxp)
  /\ pieces' = Rf_allocVector(PiecesCapacity)
  /\ pieces_num' = 0
  /\ input' = x_sxp[1]
  /\ pieceStartIdx' = 0
  /\ len' = Len(x_sxp[1])
  /\ state' = html
  /\ i' = 0
  /\ pc' = "loop"
  /\ UNCHANGED <<x_sxp, result, error, lex, lexEsc>>

\* Lines 50-175: one iteration of the loop.
ScanByte ==
  /\ pc = "loop"
  /\ i < len
  /\ LET c == input[i + 1]
         r == Switch(state, c)
         l == LexNext(state, c, r)
     IN  /\ state' = r.state
         /\ IF r.emit
              THEN /\ pieces' = str_sxp_set(pieces, pieces_num,
                         Rf_mkCharLenCE(input, pieceStartIdx,
                                        ClosedPieceLen(i, pieceStartIdx)))
                   /\ pieces_num' = pieces_num + 1
                   /\ pieceStartIdx' = NextPieceStart(i)
              ELSE UNCHANGED <<pieces, pieces_num, pieceStartIdx>>
         /\ lex' = l.lex
         /\ lexEsc' = l.esc
  /\ i' = NextIndex(i)
  /\ UNCHANGED <<x_sxp, pc, input, len, result, error>>

\* Lines 177-179: the input is exhausted outside html.
FailUnterminated ==
  /\ pc = "loop"
  /\ ~(i < len)
  /\ ~EndsInHtml(state)
  /\ pc' = "error"
  /\ error' = UnterminatedCode
  /\ UNCHANGED <<x_sxp, input, len, i, state, pieceStartIdx, pieces,
                 pieces_num, result, lex, lexEsc>>

\* Lines 181-193: add the ending HTML piece, truncate, return.
ReturnPieces ==
  /\ pc = "loop"
  /\ ~(i < len)
  /\ EndsInHtml(state)
  /\ LET stored == str_sxp_set(pieces, pieces_num,
                     Rf_mkCharLenCE(input, pieceStartIdx,
                                    EndingPieceLen(len, pieceStartIdx)))
     IN  /\ pieces' = Truncate(stored, pieces_num + 1)
         /\ result' = Truncate(stored, pieces_num + 1)
  /\ pieces_num' = pieces_num + 1
  /\ pc' = "returned"
  /\ UNCHANGED <<x_sxp, input, len, i, state, pieceStartIdx, error, lex, lexEsc>>

Next ==
  \/ RejectInput
  \/ BeginScan
  \/ ScanByte
  \/ FailUnterminated
  \/ ReturnPieces

Spec == Init /\ [][Next]_vars

TypeOK ==
  /\ pc \in {"entry", "loop", "returned", "error"}
  /\ state \in State
  /\ i \in 0..len
  /\ pieceStartIdx \in 0..len
  /\ pieces_num \in 0..(len + 1)
  /\ lex \in {"text", "%", "#"} \cup Quotes
  /\ lexEsc \in BOOLEAN

(***************************************************************************)
(* Properties                                                              *)
(***************************************************************************)
OpenDelim  == <<"{", "{">>
CloseDelim == <<"}", "}">>

\* The document of a valid call.
Document == x_sxp[1]

\* The pieces of p from the k-th on, written in order with "{{" after each
\* even-indexed (0-based) piece but the last and "}}" after each odd-indexed.
RECURSIVE Rebuild(_, _)
Rebuild(p, k) ==
  IF k >= Len(p) THEN p[k]
  ELSE p[k] \o (IF k % 2 = 1 THEN OpenDelim ELSE CloseDelim) \o Rebuild(p, k + 1)

\* C1: round trip.  When the call returns, the returned pieces written in
\* order, with "{{" reinserted after every even-indexed piece except the
\* last and "}}" after every odd-indexed piece, are the input document.
C1_RoundTrip ==
  pc = "returned" => Rebuild(result, 1) = Document

\* A call that returned five pieces, with text in the first code piece.
C1_Witness ==
  /\ pc = "returned"
  /\ Len(result) = 5
  /\ result[2] # <<>>

\* 1-based position in the document of the first byte of the k-th piece, as
\* the lengths of the pieces before it and their delimiters give it.
RECURSIVE PieceOffset(_, _)
PieceOffset(p, k) ==
  IF k = 1 THEN 1 ELSE PieceOffset(p, k - 1) + Len(p[k - 1]) + 2

\* C2: alternation.  When the call returns, the number of pieces is odd and
\* at least 1, and the delimiter in front of the k-th piece (k >= 2,
\* 1-based) is "{{" when k is even and "}}" when k is odd: the boundaries
\* alternate starting with "{{" and there are as many "}}" as "{{".
C2_Alternation ==
  pc = "returned" =>
    /\ Len(result) >= 1
    /\ Len(result) % 2 = 1
    /\ \A k \in 2..Len(result) :
         LET o == PieceOffset(result, k)
         IN  /\ o - 2 >= 1
             /\ o - 1 <= Len(Document)
             /\ SubSeq(Document, o - 2, o - 1) =
                  (IF k % 2 = 0 THEN OpenDelim ELSE CloseDelim)

\* A call that returned after two code regions, the first piece empty.
C2_Witness ==
  /\ pc = "returned"
  /\ Len(result) = 5
  /\ result[1] = <<>>

\* C3: termination check.  A valid call ends by returning exactly when the
\* automaton is in html or html_oneOpenBracket after the last byte; in any
\* other state it ends with the unterminated-code error and returns
\* nothing, whatever was accumulated.
C3_TerminationCheck ==
  /\ pc = "returned" =>
       /\ state \in {html, html_oneOpenBracket}
       /\ error = "none"
       /\ result # NoResult
  /\ (pc = "error" /\ Len(x_sxp) = 1) =>
       /\ state \notin {html, html_oneOpenBracket}
       /\ error = UnterminatedCode
       /\ i = len
       /\ result = NoResult

\* The scan ended in a comment after a "}", with a piece already stored.
C3_Witness ==
  /\ pc = "error"
  /\ error = UnterminatedCode
  /\ state = code_comment_oneCloseBracket
  /\ pieces_num >= 1

\* Whether the document d holds "{{" somewhere.
HasOpenDelim(d) ==
  \E k \in 1..(Len(d) - 1) : d[k] = "{" /\ d[k + 1] = "{"

\* C7: literal-only input.  A valid call on a document without "{{" ends
\* by returning exactly one piece, the whole document, and stores no piece
\* before the end of the input.
C7_LiteralOnly ==
  (Len(x_sxp) = 1 /\ ~HasOpenDelim(Document)) =>
    /\ pc = "loop" => pieces_num = 0
    /\ pc # "error"
    /\ pc = "returned" => result = <<Document>>

\* A returned literal document that holds "{", "}}" and another byte.
C7_Witness ==
  /\ pc = "returned"
  /\ result = <<Document>>
  /\ Len(Document) >= 4
  /\ \E k \in 1..(Len(Document) - 1) : Document[k] = "{" /\ Document[k + 1] = "a"
  /\ \E k \in 1..(Len(Document) - 1) : Document[k] = "}" /\ Document[k + 1] = "}"

\* A step of the loop: byte i is consumed.
Consuming == pc = "loop" /\ i < len

\* The step stores no piece, moves no piece start and does not enter html.
NoBoundary ==
  /\ pieces_num' = pieces_num
  /\ pieces' = pieces
  /\ pieceStartIdx' = pieceStartIdx
  /\ state' # html

\* C4: delimiter-blindness in quoted regions and percent operators, as
\* stated.  While the embedded code is inside a string, a backtick region
\* or a percent operator (opened by a quote or "%" met in code text outside
\* any other context, not yet closed), no byte records a piece boundary or
\* ends the code region.
C4_QuotedBlindness ==
  [][(Consuming /\ lex \in Quotes \cup {"%"}) => NoBoundary]_vars

\* C5, as stated: while the embedded code is inside a line comment (after a
\* "#" met in code text, before the next newline), no byte records a piece
\* boundary or enters html.
C5_CommentBlindness ==
  [][(Consuming /\ lex = "#") => NoBoundary]_vars

\* C5, amended: inside a line comment only a "}" that immediately follows
\* another "}" closes the code region; every other byte of the comment,
\* a lone "}" included, records no piece boundary and does not enter html.
C5_CommentLoneBrace ==
  [][(/\ Consuming
      /\ lex = "#"
      /\ ~(input[i + 1] = "}" /\ i >= 1 /\ input[i] = "}")) => NoBoundary]_vars

\* A lone "}" of a comment has been consumed and the code region is open.
C5_Witness ==
  /\ pc = "loop"
  /\ lex = "#"
  /\ i >= 2
  /\ input[i] = "a"
  /\ input[i - 1] = "}"
  /\ input[i - 2] = "#"
  /\ pieces_num = 1

\* C6: a comment that reaches "}}" closes the code block.  In
\* code_comment a "}" leads to code_comment_oneCloseBracket without a
\* boundary; there a second "}" stores the code piece, whose text runs from
\* the piece start to just before the two "}" and holds the "#", enters
\* html, and puts the next piece start just past the "}}".
C6_CommentCloses ==
  [][/\ (Consuming /\ state = code_comment /\ input[i + 1] = "}") =>
          /\ state' = code_comment_oneCloseBracket
          /\ pieces_num' = pieces_num
          /\ pieceStartIdx' = pieceStartIdx
     /\ (Consuming /\ state = code_comment_oneCloseBracket /\ input[i + 1] = "}") =>
          /\ state' = html
          /\ pieces_num' = pieces_num + 1
          /\ pieces_num % 2 = 1
          /\ pieces'[pieces_num + 1] = SubSeq(input, pieceStartIdx + 1, i - 1)
          /\ \E k \in (pieceStartIdx + 1)..(i - 1) : input[k] = "#"
          /\ pieceStartIdx' = i + 1
          /\ input[i] = "}"]_vars

\* The code piece "#a" has been closed from a comment.
C6_Witness ==
  /\ pc = "loop"
  /\ state = html
  /\ i = 6
  /\ pieceStartIdx = 6
  /\ pieces_num = 2
  /\ pieces[2] = <<"#", "a">>

EscapeStates ==
  {code_string1_backslash, code_string2_backslash, code_backtick_backslash}

Unescaped(s) ==
  CASE s = code_string1_backslash  -> code_string1
    [] s = code_string2_backslash  -> code_string2
    [] s = code_backtick_backslash -> code_backtick

\* C8: escape handling.  In an escape state every byte, whatever its value,
\* takes the automaton back to the string state the escape came from and
\* records no boundary; so a quote that follows an escaping backslash does
\* not end the region.
C8_Escape ==
  [][(Consuming /\ state \in EscapeStates) =>
       /\ state' = Unescaped(state)
       /\ pieces_num' = pieces_num
       /\ pieces' = pieces
       /\ pieceStartIdx' = pieceStartIdx]_vars

\* A single quote has been consumed after an escaping backslash and the
\* single-quoted string is still open.
C8_Witness ==
  /\ pc = "loop"
  /\ state = code_string1
  /\ i >= 3
  /\ input[i] = "'"
  /\ input[i - 1] = "\\"
  /\ input[i - 2] = "'"

\* C9: invalid input.  A call whose argument is not exactly one string
\* ends with the invalid-input error before the scan: no byte consumed, no
\* accumulator allocated, nothing stored or returned.  A call with exactly
\* one string never raises that error.
C9_InvalidInput ==
  /\ (Len(x_sxp) # 1 /\ pc # "entry") =>
       /\ pc = "error"
       /\ error = InvalidInput
  /\ Len(x_sxp) # 1 =>
       /\ i = 0
       /\ pieces = <<>>
       /\ pieces_num = 0
       /\ result = NoResult
  /\ Len(x_sxp) = 1 => error # InvalidInput

\* A call with two strings has been refused.
C9_Witness ==
  /\ pc = "error"
  /\ error = InvalidInput
  /\ Len(x_sxp) = 2

\* C10: tolerated trailing brace.  In html_oneOpenBracket a byte other
\* than "{" records no boundary; at the end of the input the call returns
\* without error and the last piece ends with the "{".
C10_TrailingBrace ==
  [][(pc = "loop" /\ state = html_oneOpenBracket) =>
       /\ (i < len /\ input[i + 1] # "{") =>
            /\ pieces_num' = pieces_num
            /\ pieces' = pieces
            /\ pieceStartIdx' = pieceStartIdx
       /\ ~(i < len) =>
            /\ pc' = "returned"
            /\ error' = "none"
            /\ Len(result') = pieces_num + 1
            /\ LET last == result'[Len(result')]
               IN  /\ Len(last) >= 1
                   /\ last[Len(last)] = "{"
                   /\ last = SubSeq(input, pieceStartIdx + 1, len)]_vars

\* The document "a{" has been returned as the single piece "a{".
C10_Witness ==
  /\ pc = "returned"
  /\ state = html_oneOpenBracket
  /\ result = <<(<<"a", "{">>)>>

\* C12, as stated: in code_comment_oneCloseBracket a byte other than "}"
\* takes the automaton back to code_comment, so the rest of the line is
\* still comment text.
C12_BackToComment ==
  [][(/\ Consuming
      /\ state = code_comment_oneCloseBracket
      /\ input[i + 1] # "}") => state' = code_comment]_vars

\* C13: in code_oneCloseBracket every byte other than "}" takes the
\* automaton back to code and records no boundary, whatever the byte is;
\* the lone "}" before it lies in the piece being scanned.
C13_LoneCloseBrace ==
  [][(/\ Consuming
      /\ state = code_oneCloseBracket
      /\ input[i + 1] # "}") =>
        /\ state' = code
        /\ pieces_num' = pieces_num
        /\ pieces' = pieces
        /\ pieceStartIdx' = pieceStartIdx
        /\ pieces_num % 2 = 1
        /\ i >= 1
        /\ input[i] = "}"
        /\ pieceStartIdx <= i - 1]_vars

\* A quote has been consumed right after a lone "}" and the automaton is
\* back in code.
C13_Witness ==
  /\ pc = "loop"
  /\ state = code
  /\ pieces_num = 1
  /\ i >= 4
  /\ input[i] = "'"
  /\ input[i - 1] = "}"
  /\ input[i - 2] = "a"

\* C14: a percent operator runs from a "%" met in code to the very next
\* "%".  In code a "%" leads to code_percentOp; there every byte other
\* than "%" leaves the state unchanged and a "%" leads back to code, also
\* right after a backslash; no byte of the operator records a boundary.
C14_PercentOperator ==
  [][/\ (Consuming /\ state = code /\ input[i + 1] = "%") =>
          state' = code_percentOp
     /\ (Consuming /\ state = code_percentOp) =>
          /\ state' = (IF input[i + 1] = "%" THEN code ELSE code_percentOp)
          /\ pieces_num' = pieces_num
          /\ pieces' = pieces
          /\ pieceStartIdx' = pieceStartIdx]_vars

\* The "%" that follows a backslash has closed the operator.
C14_Witness ==
  /\ pc = "loop"
  /\ state = code
  /\ i >= 5
  /\ input[i] = "%"
  /\ input[i - 1] = "\\"
  /\ input[i - 2] = "%"
  /\ lex = "text"

\* The three delimiter-completing transitions.
Completing(s, c) ==
  \/ s = html_oneOpenBracket /\ c = "{"
  \/ s = code_oneCloseBracket /\ c = "}"
  \/ s = code_comment_oneCloseBracket /\ c = "}"

\* C15: piece emission frame.  A step of the loop changes the accumulator,
\* the piece count and the piece start only on a delimiter-completing
\* transition, and then stores exactly one piece, at the next index,
\* keeping the pieces before it; the unterminated-code exit changes none
\* of the three and the final emission stores exactly one piece.
C15_EmissionFrame ==
  [][pc = "loop" =>
       IF i < len
         THEN IF Completing(state, input[i + 1])
                THEN /\ pieces_num' = pieces_num + 1
                     /\ pieceStartIdx' = i + 1
                     /\ Len(pieces') >= pieces_num'
                     /\ \A k \in 1..pieces_num : pieces'[k] = pieces[k]
                ELSE /\ pieces_num' = pieces_num
                     /\ pieces' = pieces
                     /\ pieceStartIdx' = pieceStartIdx
         ELSE IF pc' = "returned"
                THEN /\ pieces_num' = pieces_num + 1
                     /\ pieceStartIdx' = pieceStartIdx
                     /\ Len(pieces') = pieces_num'
                     /\ \A k \in 1..pieces_num : pieces'[k] = pieces[k]
                ELSE /\ pieces_num' = pieces_num
                     /\ pieces' = pieces
                     /\ pieceStartIdx' = pieceStartIdx]_vars

\* A scan that stored two pieces and then consumed a byte without storing.
C15_Witness ==
  /\ pc = "loop"
  /\ pieces_num = 2
  /\ pieceStartIdx < i
  /\ pieces[2] # <<>>

MarkupSide == {html, html_oneOpenBracket}

\* C17: state/parity invariant.  During the scan the automaton is in html
\* or html_oneOpenBracket exactly when an even number of pieces is stored,
\* and in a code-side state exactly when an odd number is; so a piece with
\* an odd 0-based index is stored only from a code-side state, and one with
\* an even index only from a markup-side state or at the end of the input.
C17_Parity ==
  [][pc = "loop" =>
       /\ (state \in MarkupSide) <=> (pieces_num % 2 = 0)
       /\ (state \in State \ MarkupSide) <=> (pieces_num % 2 = 1)
       /\ pieces_num' = pieces_num + 1 =>
            IF pieces_num % 2 = 1
              THEN state \in State \ MarkupSide /\ i < len
              ELSE state \in MarkupSide]_vars

\* A code piece has been stored from a comment and a markup byte consumed.
C17_Witness ==
  /\ pc = "loop"
  /\ pieces_num = 2
  /\ state = html
  /\ i = 6
  /\ input[3] = "#"

\* C18: boundary arithmetic.  When a piece is stored at byte i (0-based) on
\* a delimiter-completing transition, bytes i-1 and i are both "{" or both
\* "}", pieceStartIdx <= i-1 so the length i - pieceStartIdx - 1 is not
\* negative and is the length of the stored piece, and afterwards
\* pieceStartIdx = i+1 <= len; the ending piece has the length
\* len - pieceStartIdx >= 0.
C18_BoundaryArithmetic ==
  [][(pc = "loop" /\ pieces_num' = pieces_num + 1) =>
       IF i < len
         THEN /\ i >= 1
              /\ input[i] = input[i + 1]
              /\ input[i + 1] \in {"{", "}"}
              /\ pieceStartIdx <= i - 1
              /\ Len(pieces'[pieces_num']) = i - pieceStartIdx - 1
              /\ pieceStartIdx' = i + 1
              /\ pieceStartIdx' <= len
         ELSE /\ pieceStartIdx <= len
              /\ Len(pieces'[pieces_num']) = len - pieceStartIdx]_vars

\* The closing "}}" ended the document: the piece start is at len and the
\* ending piece is empty.
C18_Witness ==
  /\ pc = "returned"
  /\ pieceStartIdx = len
  /\ len >= 5
  /\ Len(result) = 3
  /\ result[2] # <<>>
  /\ result[3] = <<>>

(***************************************************************************)
(* Plain documents m0 {{ c1 }} m1 ... {{ cn }} mn: no "{" in the markup    *)
(* texts, none of } ' " backquote % # in the code texts.                   *)
(***************************************************************************)

\* Most code regions of a plain document.
MaxRegions == 2

PlainMarkupTexts == {<<>>, <<"a">>, <<"}", "}">>}
PlainCodeTexts   == {<<>>, <<"a">>, <<"{", "\\">>}

\* The lists <<m0, c1, m1, ..., cn, mn>>, n <= MaxRegions.
PlainPieceLists ==
  UNION {{p \in [1..(2 * n + 1) -> PlainMarkupTexts \cup PlainCodeTexts] :
            \A k \in 1..(2 * n + 1) :
              p[k] \in (IF k % 2 = 1 THEN PlainMarkupTexts ELSE PlainCodeTexts)} :
         n \in 0..MaxRegions}

\* Each plain document with the list it is written from.
PlainPairs == {<<Rebuild(p, 1), p>> : p \in PlainPieceLists}

\* Arguments: no string; a plain document; a plain document followed by a
\* "{{" that is never closed.
PlainVectors ==
  {<<>>} \cup {<<pr[1] \o t>> : pr \in PlainPairs, t \in {<<>>, OpenDelim}}

SpecPlain == InitOn(PlainVectors) /\ [][Next]_vars

\* C11: plain regions.  A call on the plain document written from
\* <<m0, c1, m1, ..., cn, mn>> does not fail and returns exactly these
\* 2n+1 pieces.
C11_PlainRegions ==
  pc \in {"returned", "error"} =>
    \A pr \in PlainPairs :
      (Len(x_sxp) = 1 /\ Document = pr[1]) =>
        /\ pc = "returned"
        /\ result = pr[2]

\* The document a{{a}}a{{a}}a has been returned as five pieces "a".
C11_Witness ==
  /\ pc = "returned"
  /\ Len(Document) = 13
  /\ result = [k \in 1..5 |-> <<"a">>]

(***************************************************************************)
(* Termination                                                             *)
(***************************************************************************)

\* Longest freely chosen run of bytes of a document of the fair runs.
MaxFairLen == 3

\* Arguments of the fair runs: no string, or one document of any bytes up
\* to MaxFairLen, alone or after "{{".
FairVectors ==
  {<<>>} \cup {<<d>> : d \in SeqsUpTo(Bytes, MaxFairLen)}
         \cup {<<OpenDelim \o t>> : t \in SeqsUpTo(Bytes, MaxFairLen)}

\* The call runs to completion: it is sequential code that nothing
\* suspends, so a step that can be taken is taken.
SpecFair == InitOn(FairVectors) /\ [][Next]_vars /\ WF_vars(Next)

\* C16: termination.  Each step of the loop consumes the byte at i, makes
\* the one transition of the switch for it and moves i up by one, the
\* document staying as it is; the end-of-input check is made when i = len,
\* that is after len steps, and a valid call ends by returning or by an
\* error; every call does end.
C16_Termination ==
  /\ [][pc = "loop" =>
          IF i < len
            THEN /\ i' = i + 1
                 /\ state' = Switch(state, input[i + 1]).state
                 /\ pc' = "loop"
                 /\ input' = input
                 /\ len' = len
            ELSE /\ i = len
                 /\ len = Len(input)
                 /\ i' = i
                 /\ pc' \in {"returned", "error"}]_vars
  /\ <>(pc \in {"returned", "error"})

\* A call that returned three pieces after consuming five bytes.
C16_Witness ==
  /\ pc = "returned"
  /\ len = 5
  /\ i = 5
  /\ pieces_num = 3

(***************************************************************************)
(* Accumulator growth                                                      *)
(***************************************************************************)

\* Most code regions of a document of the growth runs.
MaxGrowRegions == 10

\* A code region, empty or with text before and in it.
GrowUnits == {<<"{", "{", "}", "}">>, <<"a", "{", "{", "a", "}", "}">>}

\* The documents written as k units.
RECURSIVE GrowDocs(_)
GrowDocs(k) ==
  IF k = 0 THEN {<<>>} ELSE {d \o u : d \in GrowDocs(k - 1), u \in GrowUnits}

\* Arguments of the growth runs: no string, or up to MaxGrowRegions units
\* followed by nothing, by an ordinary byte or by a "{{" never closed.
GrowVectors ==
  {<<>>} \cup {<<d \o t>> : d \in UNION {GrowDocs(k) : k \in 0..MaxGrowRegions},
                            t \in {<<>>, <<"a">>, OpenDelim}}

SpecGrow == InitOn(GrowVectors) /\ [][Next]_vars

\* C19: accumulator growth.  The accumulator starts with 10 slots.  Every
\* store of the loop goes to index pieces_num, which is below the number of
\* slots after the doubling the store may have made; a doubling keeps every
\* piece stored before at its index.  The returned vector has exactly as
\* many elements as pieces were stored, all of them stored pieces, none a
\* padding slot.
C19_AccumulatorGrowth ==
  [][/\ (pc = "entry" /\ pc' = "loop") => Len(pieces') = 10
     /\ pc = "loop" =>
          /\ pieces_num <= Len(pieces)
          /\ pieces_num' = pieces_num + 1 =>
               IF i < len
                 THEN /\ Len(pieces') = (IF pieces_num >= Len(pieces)
                                           THEN 2 * Len(pieces) ELSE Len(pieces))
                      /\ pieces_num < Len(pieces')
                      /\ \A k \in 1..pieces_num : pieces'[k] = pieces[k]
                      /\ pieces'[pieces_num + 1] =
                           SubSeq(input, pieceStartIdx + 1, i - 1)
                 ELSE /\ Len(result') = pieces_num + 1
                      /\ \A k \in 1..pieces_num : result'[k] = pieces[k]
                      /\ result'[pieces_num + 1] =
                           SubSeq(input, pieceStartIdx + 1, len)
                      /\ \A k \in 1..Len(result') : result'[k] # NA_STRING]_vars

\* 21 pieces have been returned: the accumulator doubled twice.
C19_Witness ==
  /\ pc = "returned"
  /\ Len(result) = 21
  /\ result[11] = <<"a">>
  /\ result[21] = <<"a">>

=============================================================================
